---- MODULE Spec2Model ----
(***************************************************************************)
(* Draftly client: the authentication session (AuthProvider, the axios     *)
(* instance `api` with its default Authorization header, localStorage) and *)
(* the project detail page (section list, selected section, export).       *)
(*                                                                         *)
(* JavaScript runs one task at a time, so every handler runs to its next   *)
(* `await` without interruption: one action is one such run.  A React      *)
(* state update made with setAuthState is queued by the handler and is     *)
(* committed by a later render; the effects that depend on it run with     *)
(* that render (action Render).                                            *)
(***************************************************************************)
EXTENDS Naturals, Sequences, FiniteSets

VARIABLES
    mounted,        \* AuthProvider has been constructed (useState initializer ran)
    interceptors,   \* the handlers registered on api.interceptors.response
    storage,        \* localStorage entry under storageKey
    authState,      \* AuthProvider's authState (latest value given to setAuthState)
    header,         \* api.defaults.headers.common.Authorization
    renderedToken,  \* authState.accessToken as of the last committed render
    inflight,       \* requests sent and not yet answered
    loginPage,      \* LoginPage:    [loading, error]
    registerPage,   \* RegisterPage: [loading, error]
    page,           \* ProjectDetailPage is mounted ("open") or not ("closed")
    project,        \* ProjectDetailPage: project (its title, or null)
    sections,       \* ProjectDetailPage: sections
    selectedSection,\* ProjectDetailPage: selectedSection (the local edit buffer)
    loading,        \* ProjectDetailPage: loading
    error,          \* ProjectDetailPage: error
    exporting,      \* ProjectDetailPage: exporting
    savingSection,  \* ProjectDetailPage: savingSection
    llmBusy,        \* ProjectDetailPage: llmBusy
    refinePrompt,   \* ProjectDetailPage: refinePrompt
    sectionForm,    \* ProjectDetailPage: sectionForm
    projectsPage,   \* ProjectsPage: [projects, loading, error, form, creating, generator, generating]
    serverSections, \* the backend's section list of the open project
    bypassed,       \* a generate or refine handler has been called while llmBusy was set
    last            \* the handler that ran last: [act, status, note]

sessionVars == <<mounted, interceptors, storage, authState, header, renderedToken>>
authPageVars == <<loginPage, registerPage>>
pageVars == <<page, project, sections, selectedSection, loading, error, exporting, savingSection>>

editorVars == <<llmBusy, refinePrompt, sectionForm>>
otherVars == <<editorVars, projectsPage, serverSections, bypassed>>

vars == <<sessionVars, inflight, authPageVars, pageVars, otherVars, last>>

----------------------------------------------------------------------------
(* JavaScript values *)

Null == "null"
Undef == "undefined"

\* A JavaScript value used as a condition: `if (token)`, `if (stored)`, `!accessToken`.
Truthy(v) == v \notin {Null, Undef, ""}

AccessTokens == {"t1", "t2"}
RefreshTokens == {"r1"}
\* refresh_token of a login response: a token, or null.
RefreshValues == RefreshTokens \cup {Null}
Emails == {"u1", "u2"}

\* The keys of AuthState, in the order login and logout write them.
AuthKeys == <<"accessToken", "refreshToken", "userEmail">>

NullState == [accessToken |-> Null, refreshToken |-> Null, userEmail |-> Null]

----------------------------------------------------------------------------
(* localStorage texts and JSON *)

\* getItem returns null: no entry under the key.
Absent == [kind |-> "absent", members |-> <<>>]
\* An entry whose text is the empty string.
EmptyText == [kind |-> "empty", members |-> <<>>]
\* An entry whose text is not JSON.
GarbageText == [kind |-> "garbage", members |-> <<>>]
\* An entry whose text is the JSON literal null.
JsonNullText == [kind |-> "jsonnull", members |-> <<>>]

\* The members JSON.stringify writes for the keys from the i-th on: "key":value
\* pairs in key order, a key whose value is undefined being left out.
RECURSIVE MembersFrom(_, _)
MembersFrom(state, i) ==
    IF i > Len(AuthKeys) THEN <<>>
    ELSE IF state[AuthKeys[i]] = Undef THEN MembersFrom(state, i + 1)
    ELSE <<<<AuthKeys[i], state[AuthKeys[i]]>>>> \o MembersFrom(state, i + 1)

\* JSON.stringify of an AuthState object.
JSONstringify(state) == [kind |-> "object", members |-> MembersFrom(state, 1)]

\* JSON.parse throws a SyntaxError on these texts.
ParseThrows(text) == text.kind \in {"empty", "garbage"}

\* The value of property `key` of a parsed object text: undefined when the text
\* has no such member.
Member(text, key) ==
    IF \E i \in DOMAIN text.members : text.members[i][1] = key
    THEN text.members[CHOOSE i \in DOMAIN text.members : text.members[i][1] = key][2]
    ELSE Undef

\* JSON.parse of an object text, read as AuthState.
JSONparse(text) ==
    [accessToken |-> Member(text, "accessToken"),
     refreshToken |-> Member(text, "refreshToken"),
     userEmail |-> Member(text, "userEmail")]

\* localStorage.getItem(storageKey) as a condition: null and "" are falsy.
StoredTruthy(text) == text.kind \notin {"absent", "empty"}

----------------------------------------------------------------------------
(* Transport *)

NoHeader == <<>>

\* setAuthHeader without its else branch: a null token is written into the header.
SetAuthHeaderNoDelete(token) == <<"Bearer", token>>

\* setAuthHeader: the value of api.defaults.headers.common.Authorization afterwards.
SetAuthHeader(token) == IF Truthy(token) THEN <<"Bearer", token>> ELSE NoHeader

\* What a request can end in: a 2xx response, a 401 response, another HTTP failure,
\* or no response at all; an HTTP failure may carry data.detail.
Responses ==
    {[status |-> "ok", detail |-> FALSE], [status |-> "network", detail |-> FALSE]}
    \cup [status : {"401", "500"}, detail : BOOLEAN]

\* The catch block without the detail: every failure shows the fallback.
ErrorTextFallbackOnly(resp, fallback) == fallback

\* err?.response?.data?.detail ?? fallback
ErrorText(resp, fallback) ==
    IF resp.status \in {"401", "500"} /\ resp.detail THEN "detail" ELSE fallback

OkResponse == [status |-> "ok", detail |-> FALSE]
Failures == Responses \ {OkResponse}

Passwords == {"p1", "p2"}

\* The model follows at most MaxInFlight requests at a time.
MaxInFlight == 2
CanSend(n) == Cardinality(inflight) + n <= MaxInFlight

NoPage == [loading |-> FALSE, error |-> Null]

\* The browser's check of a `required` control: a submit button does not
\* dispatch the submit event while the control's value is empty.
RequiredIgnored(value) == TRUE
Required(value) == value # ""

\* A request in flight: the operation awaiting it, what it was sent with, and
\* whether the component whose handler awaits it has been unmounted since.
Request(op, arg) == [op |-> op, arg |-> arg, orphan |-> FALSE]

\* A record of the step just taken: the handler, the response status it handled
\* and a note (what a login was called with and was answered; the file an
\* export saved; the id a reload found selected and whether the reload was applied
\* to a mounted page).
Noted(act, status, note) == [act |-> act, status |-> status, note |-> note]
Did(act, status) == Noted(act, status, <<>>)

----------------------------------------------------------------------------
(* Sections *)

SectionIds == {"A", "B", "C"}
\* The content the server holds for a section.
Contents == {"c0"}

\* selectedSection = null
NoSection == [id |-> Null, title |-> Null, content |-> Null, initial_generated |-> Null]

\* A section as the server returns it; its title is named after its id, and it
\* is one that the LLM generated.
Section(id, content) ==
    [id |-> id, title |-> id, content |-> content, initial_generated |-> TRUE]

\* The lists a section-list response can carry: sections with distinct ids, in any order.
SectionLists ==
    {items \in UNION {[1..k -> {Section(id, c) : id \in SectionIds, c \in Contents}] :
                         k \in 0..Cardinality(SectionIds)} :
        \A i, j \in DOMAIN items : i # j => items[i].id # items[j].id}

\* sections.find((section) => section.id === id): the index of the first match, 0 if none.
FindIndex(items, id) ==
    IF \E i \in DOMAIN items : items[i].id = id
    THEN CHOOSE i \in DOMAIN items :
            /\ items[i].id = id
            /\ \A j \in DOMAIN items : items[j].id = id => i <= j
    ELSE 0

\* The ids of a list's sections.
Ids(items) == {items[i].id : i \in DOMAIN items}

\* The selection effect without the lookup: a reload always selects the first section.
SelectionEffectFirst(items, prev) ==
    IF Len(items) = 0 THEN NoSection ELSE items[1]

\* The selection effect keeping the buffer: a section still in the list stays as edited.
SelectionEffectKeep(items, prev) ==
    IF Len(items) = 0 THEN NoSection
    ELSE IF prev = NoSection THEN items[1]
    ELSE IF FindIndex(items, prev.id) # 0 THEN prev
    ELSE items[1]

\* The effect on [sections]: the selection after the list has become `items`.
SelectionEffect(items, prev) ==
    IF Len(items) = 0 THEN NoSection
    ELSE IF prev = NoSection THEN items[1]
    ELSE IF FindIndex(items, prev.id) # 0 THEN items[FindIndex(items, prev.id)]
    ELSE items[1]

----------------------------------------------------------------------------
(* AuthProvider *)

\* The useState initializer's return value for a stored text.
InitialAuthState(stored) ==
    IF StoredTruthy(stored) /\ ~ParseThrows(stored) /\ stored.kind # "jsonnull"
    THEN JSONparse(stored)
    ELSE NullState

\* localStorage after the initializer: the catch block removes the entry when
\* JSON.parse throws, and when reading parsed.accessToken of null throws.
InitialStorage(stored) ==
    IF StoredTruthy(stored) /\ (ParseThrows(stored) \/ stored.kind = "jsonnull")
    THEN Absent
    ELSE stored

\* Construction: the initializer, then the first run of the header effect and of
\* the effect that registers the response interceptor.
AuthProviderInit ==
    /\ ~mounted
    /\ mounted' = TRUE
    /\ authState' = InitialAuthState(storage)
    /\ storage' = InitialStorage(storage)
    /\ header' = SetAuthHeader(authState'.accessToken)
    /\ renderedToken' = authState'.accessToken
    /\ interceptors' = interceptors + 1
    /\ last' = Did("init", IF last.act = "unmount" THEN "again" ELSE "none")
    /\ UNCHANGED otherVars
    /\ UNCHANGED <<inflight, authPageVars, pageVars>>

\* The interceptor without its status test: every failed response ends the session.
InterceptorAnyFailure(resp) ==
    IF resp.status # "ok"
    THEN /\ authState' = NullState
         /\ storage' = Absent
    ELSE UNCHANGED <<authState, storage>>

\* A response with status 401.
Unauthorized == [status |-> "401", detail |-> FALSE]

\* How many times the invalidation (the body of the interceptor's `if`) runs for
\* a response: once for every registered handler when the status is 401.
HandlerRuns(resp) == IF resp.status = "401" THEN interceptors ELSE 0

\* The response interceptor's error branch.  setAuthState acts on a constructed
\* provider only.
Interceptor(resp) ==
    IF HandlerRuns(resp) > 0
    THEN /\ authState' = IF mounted THEN NullState ELSE authState
         /\ storage' = Absent
    ELSE UNCHANGED <<authState, storage>>

\* persist without its setAuthHeader call: the header waits for the next render.
persistNoHeader(state) ==
    /\ authState' = state
    /\ UNCHANGED header
    /\ storage' = JSONstringify(state)

\* persist reading the token from the authState of its closure, not from its argument.
persistStale(state) ==
    /\ authState' = state
    /\ header' = SetAuthHeader(authState.accessToken)
    /\ storage' = JSONstringify(state)

persist(state) ==
    /\ authState' = state
    /\ header' = SetAuthHeader(state.accessToken)
    /\ storage' = JSONstringify(state)

\* AuthLayout renders its page only without an accessToken, DashboardLayout only with one.
AuthLayoutShown == mounted /\ ~Truthy(renderedToken)
\* DashboardLayout without its `if (!accessToken)`: the dashboard is shown to anyone.
DashboardShownNoGuard == mounted
DashboardShown == mounted /\ Truthy(renderedToken)

\* The creation form's initial value.
emptySection == [title |-> "", content |-> "", idx |-> 0]

\* defaultProjectForm, of which the model follows the title.
defaultProjectForm == [title |-> ""]

\* The initial state of ProjectsPage.
NoProjectsPage ==
    [projects |-> <<>>, loading |-> TRUE, error |-> Null, form |-> defaultProjectForm,
     creating |-> FALSE, generator |-> [projectId |-> "", num_sections |-> 5],
     generating |-> FALSE]

\* The state of the dashboard's pages when they are not mounted, and when just constructed.
PageClosed ==
    /\ page' = "closed"
    /\ project' = Null
    /\ sections' = <<>>
    /\ selectedSection' = NoSection
    /\ loading' = TRUE
    /\ error' = Null
    /\ exporting' = FALSE
    /\ savingSection' = FALSE
    /\ llmBusy' = FALSE
    /\ refinePrompt' = ""
    /\ sectionForm' = emptySection
    /\ projectsPage' = NoProjectsPage

\* A render that commits a changed accessToken.  The header effect runs with it.
\* When the token appears or disappears the layouts swap the pages: the pages
\* shown until now are unmounted, and what their handlers still await is orphaned.
Render ==
    /\ mounted
    /\ renderedToken # authState.accessToken
    /\ renderedToken' = authState.accessToken
    /\ header' = SetAuthHeader(authState.accessToken)
    /\ IF Truthy(renderedToken) # Truthy(authState.accessToken)
       THEN /\ loginPage' = NoPage
            /\ registerPage' = NoPage
            /\ PageClosed
            /\ inflight' = {[r EXCEPT !.orphan = TRUE] : r \in inflight}
       ELSE UNCHANGED <<inflight, authPageVars, pageVars, editorVars, projectsPage>>
    /\ last' = Did("render", "none")
    /\ UNCHANGED <<mounted, interceptors, storage, authState, serverSections, bypassed>>

logout ==
    /\ DashboardShown
    /\ persist(NullState)
    /\ last' = Did("logout", IF last.act = "logout" THEN "again" ELSE "none")
    /\ UNCHANGED otherVars
    /\ UNCHANGED <<mounted, interceptors, renderedToken, inflight, authPageVars, pageVars>>

----------------------------------------------------------------------------
(* LoginPage *)

LoginSubmit(email, password) ==
    /\ AuthLayoutShown
    /\ CanSend(1)
    /\ ~loginPage.loading
    /\ loginPage' = [loading |-> TRUE, error |-> Null]
    /\ inflight' = inflight \cup {Request("login", <<email, password>>)}
    /\ last' = Did("loginSubmit", "none")
    /\ UNCHANGED otherVars
    /\ UNCHANGED <<sessionVars, registerPage, pageVars>>

\* What a finished login leaves in last.note: the identity it was called with and,
\* on success, the tokens of the response.
LoginNote(r, resp, token, refresh) ==
    IF resp.status = "ok" THEN <<r.arg[1], token, refresh>> ELSE <<r.arg[1]>>

\* login after its await: persist on success, the rejection propagates otherwise.
login(r, resp, token, refresh) ==
    IF resp.status = "ok"
    THEN persist([accessToken |-> token, refreshToken |-> refresh, userEmail |-> r.arg[1]])
    ELSE Interceptor(resp) /\ UNCHANGED header

LoginResponse(r, resp, token, refresh) ==
    /\ r \in inflight /\ r.op = "login"
    /\ inflight' = inflight \ {r}
    /\ login(r, resp, token, refresh)
    /\ loginPage' =
          IF r.orphan THEN loginPage
          ELSE [loading |-> FALSE,
                error |-> IF resp.status = "ok" THEN loginPage.error
                          ELSE ErrorText(resp, "Unable to login")]
    /\ last' = Noted("login", resp.status, LoginNote(r, resp, token, refresh))
    /\ UNCHANGED otherVars
    /\ UNCHANGED <<mounted, interceptors, renderedToken, registerPage, pageVars>>

----------------------------------------------------------------------------
(* RegisterPage *)

RegisterSubmit(email, password, confirmPassword) ==
    /\ AuthLayoutShown
    /\ ~registerPage.loading
    /\ password = confirmPassword => CanSend(1)
    /\ IF password # confirmPassword
       THEN /\ registerPage' = [registerPage EXCEPT !.error = "Passwords do not match"]
            /\ UNCHANGED inflight
       ELSE /\ registerPage' = [loading |-> TRUE, error |-> Null]
            /\ inflight' = inflight \cup {Request("register", <<email, password>>)}
    /\ last' = Noted("registerSubmit", IF password # confirmPassword THEN "invalid" ELSE "none",
                      <<password, confirmPassword>>)
    /\ UNCHANGED otherVars
    /\ UNCHANGED <<sessionVars, loginPage, pageVars>>

\* register without its first await: login is called whatever the registration's outcome.
RegisterResponseNoAwait(r, resp) ==
    /\ r \in inflight /\ r.op = "register"
    /\ Interceptor(resp)
    /\ inflight' = (inflight \ {r}) \cup {[r EXCEPT !.op = "registerLogin"]}
    /\ UNCHANGED registerPage
    /\ last' = Did("register", resp.status)
    /\ UNCHANGED otherVars
    /\ UNCHANGED <<mounted, interceptors, header, renderedToken, loginPage, pageVars>>

\* register after its first await: on success it calls login with the same arguments.
RegisterResponse(r, resp) ==
    /\ r \in inflight /\ r.op = "register"
    /\ Interceptor(resp)
    /\ IF resp.status = "ok"
       THEN /\ inflight' = (inflight \ {r}) \cup {[r EXCEPT !.op = "registerLogin"]}
            /\ UNCHANGED registerPage
       ELSE /\ inflight' = inflight \ {r}
            /\ registerPage' =
                  IF r.orphan THEN registerPage
                  ELSE [loading |-> FALSE, error |-> ErrorText(resp, "Unable to register")]
    /\ last' = Did("register", resp.status)
    /\ UNCHANGED otherVars
    /\ UNCHANGED <<mounted, interceptors, header, renderedToken, loginPage, pageVars>>

\* register after its second await (the login it called).
RegisterLoginResponse(r, resp, token, refresh) ==
    /\ r \in inflight /\ r.op = "registerLogin"
    /\ inflight' = inflight \ {r}
    /\ login(r, resp, token, refresh)
    /\ registerPage' =
          IF r.orphan THEN registerPage
          ELSE [loading |-> FALSE,
                error |-> IF resp.status = "ok" THEN registerPage.error
                          ELSE ErrorText(resp, "Unable to register")]
    /\ last' = Noted("registerLogin", resp.status, LoginNote(r, resp, token, refresh))
    /\ UNCHANGED otherVars
    /\ UNCHANGED <<mounted, interceptors, renderedToken, loginPage, pageVars>>

----------------------------------------------------------------------------
(* AuthProvider unmounted and constructed again *)

\* A request after the provider that sent it is unmounted: its pages are gone,
\* and a login or a registration goes on in the closures of the old provider.
AfterUnmount(r) ==
    [r EXCEPT !.orphan = TRUE,
              !.op = CASE r.op \in {"login", "registerLogin"} -> "staleLogin"
                       [] r.op = "register" -> "staleRegister"
                       [] OTHER -> r.op]

\* What unmounting leaves besides the registered handlers: the component's state
\* and its pages are discarded, api keeps its header, localStorage its entry.
Unmounted ==
    /\ mounted
    /\ mounted' = FALSE
    /\ authState' = NullState
    /\ renderedToken' = Null
    /\ loginPage' = NoPage
    /\ registerPage' = NoPage
    /\ PageClosed
    /\ inflight' = {AfterUnmount(r) : r \in inflight}
    /\ last' = Did("unmount", "none")
    /\ UNCHANGED <<storage, header, serverSections, bypassed>>

\* Unmounting with an interceptor effect that returns no cleanup.
AuthProviderUnmountNoEject == Unmounted /\ UNCHANGED interceptors

\* AuthProvider is unmounted: the interceptor effect's cleanup ejects its handler.
AuthProviderUnmount == Unmounted /\ interceptors' = interceptors - 1

\* login of an unmounted provider after its await: persist's setAuthState acts
\* on nothing, its setAuthHeader and localStorage.setItem act as ever.
StaleLoginResponse(r, resp, token, refresh) ==
    /\ r \in inflight /\ r.op = "staleLogin"
    /\ inflight' = inflight \ {r}
    /\ IF resp.status = "ok"
       THEN /\ header' = SetAuthHeader(token)
            /\ storage' = JSONstringify([accessToken |-> token, refreshToken |-> refresh,
                                         userEmail |-> r.arg[1]])
            /\ UNCHANGED authState
       ELSE Interceptor(resp) /\ UNCHANGED header
    /\ last' = Noted("staleLogin", resp.status, LoginNote(r, resp, token, refresh))
    /\ UNCHANGED otherVars
    /\ UNCHANGED <<mounted, interceptors, renderedToken, authPageVars, pageVars>>

\* register of an unmounted provider after its first await.
StaleRegisterResponse(r, resp) ==
    /\ r \in inflight /\ r.op = "staleRegister"
    /\ Interceptor(resp)
    /\ inflight' = IF resp.status = "ok"
                   THEN (inflight \ {r}) \cup {[r EXCEPT !.op = "staleLogin"]}
                   ELSE inflight \ {r}
    /\ last' = Did("staleRegister", resp.status)
    /\ UNCHANGED otherVars
    /\ UNCHANGED <<mounted, interceptors, header, renderedToken, authPageVars, pageVars>>

----------------------------------------------------------------------------
(* ProjectDetailPage *)

ProjectTitles == {"P"}
ExportFormats == {"docx", "pptx", "txt"}

\* The page is mounted: both mount effects run, fetchProject() and fetchSections()
\* each up to its await, and the selection effect finds no sections.
OpenPage ==
    /\ DashboardShown
    /\ page = "closed"
    /\ CanSend(2)
    /\ page' = "open"
    /\ loading' = TRUE
    /\ error' = Null
    /\ selectedSection' = NoSection
    /\ inflight' = inflight \cup {Request("fetchProject", <<>>), Request("fetchSections", <<>>)}
    /\ last' = Did("openPage", "none")
    /\ UNCHANGED otherVars
    /\ UNCHANGED <<sessionVars, authPageVars, project, sections, exporting, savingSection>>

\* fetchProject after its await.
FetchProjectResponse(r, resp, title) ==
    /\ r \in inflight /\ r.op = "fetchProject"
    /\ inflight' = inflight \ {r}
    /\ Interceptor(resp)
    /\ IF r.orphan THEN UNCHANGED <<project, error>>
       ELSE IF resp.status = "ok" THEN project' = title /\ UNCHANGED error
       ELSE error' = ErrorText(resp, "Unable to load project") /\ UNCHANGED project
    /\ last' = Did("fetchProject", resp.status)
    /\ UNCHANGED otherVars
    /\ UNCHANGED <<mounted, interceptors, header, renderedToken, authPageVars,
                   page, sections, selectedSection, loading, exporting, savingSection>>

\* What a fetchSections request is sent with: the handler that awaits it, none
\* for the mount effect's call.
FromUpdate == <<"handleSectionUpdate">>
FromCreate == <<"handleSectionCreate">>
\* handleGenerate and handleRefine call it after setSelectedSection(data): the
\* model keeps data's id and content with the request.
FromGenerate(data) == <<"handleGenerate", data.id, data.content>>
FromRefine(data) == <<"handleRefine", data.id, data.content>>

\* The handler that awaits a fetchSections request.
Awaiter(r) == IF r.arg = <<>> THEN "mount" ELSE r.arg[1]

\* fetchSections after its await, and the selection effect that a new list triggers.
FetchSectionsDone(r, resp, items) ==
    IF r.orphan THEN UNCHANGED <<sections, selectedSection, loading, error>>
    ELSE /\ loading' = FALSE
         /\ IF resp.status = "ok"
            THEN /\ sections' = items
                 /\ selectedSection' = SelectionEffect(items, selectedSection)
                 /\ UNCHANGED error
            ELSE /\ error' = ErrorText(resp, "Unable to load sections")
                 /\ UNCHANGED <<sections, selectedSection>>

FetchSectionsResponse(r, resp, items) ==
    /\ r \in inflight /\ r.op = "fetchSections"
    /\ inflight' = inflight \ {r}
    /\ Interceptor(resp)
    /\ FetchSectionsDone(r, resp, items)
    /\ savingSection' =
          IF ~r.orphan /\ Awaiter(r) \in {"handleSectionUpdate", "handleSectionCreate"}
          THEN FALSE ELSE savingSection
    /\ llmBusy' =
          IF ~r.orphan /\ Awaiter(r) \in {"handleGenerate", "handleRefine"} THEN FALSE ELSE llmBusy
    /\ refinePrompt' = IF ~r.orphan /\ Awaiter(r) = "handleRefine" THEN "" ELSE refinePrompt
    /\ last' = Noted("fetchSections", resp.status,
                      <<selectedSection.id, ~r.orphan, r.arg, refinePrompt,
                        selectedSection.content>>)
    /\ UNCHANGED <<mounted, interceptors, header, renderedToken, authPageVars, page, project, exporting>>
    /\ UNCHANGED <<sectionForm, projectsPage, serverSections, bypassed>>

\* The body of the PUT request with every field of the section.
UpdateBodyWhole(section) == section

\* The body of handleSectionUpdate's PUT request.
UpdateBody(section) == [title |-> section.title, content |-> section.content]

\* The Save button: handleSectionUpdate(selectedSection) up to its first await.
\* last.note holds the id in the request's path and the request's body.
handleSectionUpdate ==
    /\ page = "open"
    /\ selectedSection # NoSection
    /\ ~savingSection
    /\ CanSend(1)
    /\ savingSection' = TRUE
    /\ inflight' = inflight \cup {Request("update", <<>>)}
    /\ last' = Noted("save", "none", <<selectedSection.id, UpdateBody(selectedSection)>>)
    /\ UNCHANGED otherVars
    /\ UNCHANGED <<sessionVars, authPageVars,
                   page, project, sections, selectedSection, loading, error, exporting>>

\* handleSectionUpdate without its finally block: a failed save leaves the flag set.
UpdateResponseNoFinally(r, resp) ==
    /\ r \in inflight /\ r.op = "update"
    /\ Interceptor(resp)
    /\ IF resp.status = "ok"
       THEN /\ inflight' = (inflight \ {r}) \cup {[r EXCEPT !.op = "fetchSections", !.arg = FromUpdate]}
            /\ IF r.orphan THEN UNCHANGED <<loading, error>>
               ELSE loading' = TRUE /\ error' = Null
       ELSE /\ inflight' = inflight \ {r}
            /\ IF r.orphan THEN UNCHANGED error
               ELSE error' = ErrorText(resp, "Unable to update section")
            /\ UNCHANGED loading
    /\ UNCHANGED savingSection
    /\ last' = Did("update", resp.status)
    /\ UNCHANGED otherVars
    /\ UNCHANGED <<mounted, interceptors, header, renderedToken, authPageVars,
                   page, project, sections, selectedSection, exporting>>

\* handleSectionUpdate without its fetchSections(): a save that succeeded goes
\* straight to the finally block.
UpdateResponseNoReload(r, resp) ==
    /\ r \in inflight /\ r.op = "update"
    /\ Interceptor(resp)
    /\ inflight' = inflight \ {r}
    /\ IF r.orphan THEN UNCHANGED <<error, savingSection>>
       ELSE /\ error' = IF resp.status = "ok" THEN error
                        ELSE ErrorText(resp, "Unable to update section")
            /\ savingSection' = FALSE
    /\ last' = Did("update", resp.status)
    /\ UNCHANGED otherVars
    /\ UNCHANGED <<mounted, interceptors, header, renderedToken, authPageVars,
                   page, project, sections, selectedSection, loading, exporting>>

\* handleSectionUpdate after its first await: on success it calls fetchSections(),
\* which runs up to its own await; on failure the catch and finally blocks run.
UpdateResponse(r, resp) ==
    /\ r \in inflight /\ r.op = "update"
    /\ Interceptor(resp)
    /\ IF resp.status = "ok"
       THEN /\ inflight' = (inflight \ {r}) \cup {[r EXCEPT !.op = "fetchSections", !.arg = FromUpdate]}
            /\ IF r.orphan THEN UNCHANGED <<loading, error>>
               ELSE loading' = TRUE /\ error' = Null
            /\ UNCHANGED savingSection
       ELSE /\ inflight' = inflight \ {r}
            /\ IF r.orphan THEN UNCHANGED <<error, savingSection>>
               ELSE /\ error' = ErrorText(resp, "Unable to update section")
                    /\ savingSection' = FALSE
            /\ UNCHANGED loading
    /\ last' = Did("update", resp.status)
    /\ UNCHANGED otherVars
    /\ UNCHANGED <<mounted, interceptors, header, renderedToken, authPageVars,
                   page, project, sections, selectedSection, exporting>>

\* What the LLM writes as a section's content.
Generated == {"g"}
\* What a user types as the refinement instruction.
Instructions == {"shorter"}

\* The model follows one request of a kind at a time: a request equal to one in
\* flight is not sent.
Fresh(q) == q \notin inflight

\* handleGenerate up to its await.  The handler does not look at llmBusy.
handleGenerate ==
    /\ page = "open"
    /\ selectedSection # NoSection
    /\ CanSend(1)
    /\ Fresh(Request("generate", <<selectedSection.id>>))
    /\ llmBusy' = TRUE
    /\ error' = Null
    /\ inflight' = inflight \cup {Request("generate", <<selectedSection.id>>)}
    /\ bypassed' = (bypassed \/ llmBusy)
    /\ last' = Did("generateClick", "none")
    /\ UNCHANGED <<sessionVars, authPageVars, page, project, sections, selectedSection, loading,
                   exporting, savingSection, refinePrompt, sectionForm, projectsPage,
                   serverSections>>

\* The Generate button, disabled while llmBusy.
GenerateClick == ~llmBusy /\ handleGenerate

\* The list entry's content for the selected id (the buffer's own when the list has none).
ListContent ==
    IF FindIndex(sections, selectedSection.id) # 0
    THEN sections[FindIndex(sections, selectedSection.id)].content
    ELSE selectedSection.content

\* handleRefine sending the list entry's content instead of the buffer's.
handleRefineFromList ==
    /\ page = "open"
    /\ selectedSection # NoSection
    /\ CanSend(1)
    /\ Fresh(Request("refine", <<selectedSection.id, ListContent, refinePrompt>>))
    /\ llmBusy' = TRUE
    /\ error' = Null
    /\ inflight' = inflight \cup
          {Request("refine", <<selectedSection.id, ListContent, refinePrompt>>)}
    /\ bypassed' = (bypassed \/ llmBusy)
    /\ last' = Did("refineClick", "none")
    /\ UNCHANGED <<sessionVars, authPageVars, page, project, sections, selectedSection, loading,
                   exporting, savingSection, refinePrompt, sectionForm, projectsPage,
                   serverSections>>

\* handleRefine up to its await: the request carries the buffer's content as prompt
\* and refinePrompt as refine_instruction.  The handler does not look at llmBusy.
handleRefine ==
    /\ page = "open"
    /\ selectedSection # NoSection
    /\ CanSend(1)
    /\ Fresh(Request("refine", <<selectedSection.id, selectedSection.content, refinePrompt>>))
    /\ llmBusy' = TRUE
    /\ error' = Null
    /\ inflight' = inflight \cup
          {Request("refine", <<selectedSection.id, selectedSection.content, refinePrompt>>)}
    /\ bypassed' = (bypassed \/ llmBusy)
    /\ last' = Did("refineClick", "none")
    /\ UNCHANGED <<sessionVars, authPageVars, page, project, sections, selectedSection, loading,
                   exporting, savingSection, refinePrompt, sectionForm, projectsPage,
                   serverSections>>

\* The Refine button, disabled while llmBusy.
RefineClick == ~llmBusy /\ handleRefine

\* Typing in the refinement-instruction input.
SetRefinePrompt(text) ==
    /\ page = "open"
    /\ selectedSection # NoSection
    /\ refinePrompt # text
    /\ refinePrompt' = text
    /\ last' = Did("instruction", "none")
    /\ UNCHANGED <<sessionVars, inflight, authPageVars, pageVars, llmBusy, sectionForm,
                   projectsPage, serverSections, bypassed>>

\* The catch block alone: the flag is not cleared when the request fails.
LlmFailedNoFinally(r, resp, fallback) ==
    /\ inflight' = inflight \ {r}
    /\ IF r.orphan THEN UNCHANGED error
       ELSE error' = ErrorText(resp, fallback)
    /\ UNCHANGED <<selectedSection, loading, llmBusy>>

\* The catch and finally blocks of handleGenerate and handleRefine on a mounted page.
LlmFailed(r, resp, fallback) ==
    /\ inflight' = inflight \ {r}
    /\ IF r.orphan THEN UNCHANGED <<error, llmBusy>>
       ELSE /\ error' = ErrorText(resp, fallback)
            /\ llmBusy' = FALSE
    /\ UNCHANGED <<selectedSection, loading>>

\* The try block without setSelectedSection(data): the buffer waits for the reload.
LlmSucceededNoReplace(r, data, reload) ==
    /\ Fresh([op |-> "fetchSections", arg |-> reload, orphan |-> r.orphan])
    /\ inflight' = (inflight \ {r}) \cup {[op |-> "fetchSections", arg |-> reload, orphan |-> r.orphan]}
    /\ IF r.orphan THEN UNCHANGED <<loading, error>>
       ELSE /\ loading' = TRUE
            /\ error' = Null
    /\ UNCHANGED <<selectedSection, llmBusy>>

\* The try block after the await: setSelectedSection(data), then fetchSections()
\* up to its own await.
LlmSucceeded(r, data, reload) ==
    /\ Fresh([op |-> "fetchSections", arg |-> reload, orphan |-> r.orphan])
    /\ inflight' = (inflight \ {r}) \cup {[op |-> "fetchSections", arg |-> reload, orphan |-> r.orphan]}
    /\ IF r.orphan THEN UNCHANGED <<selectedSection, loading, error>>
       ELSE /\ selectedSection' = data
            /\ loading' = TRUE
            /\ error' = Null
    /\ UNCHANGED llmBusy

\* handleGenerate after its await; the response's data is the section of the request
\* with the generated content.
GenerateResponse(r, resp, content) ==
    /\ r \in inflight /\ r.op = "generate"
    /\ Interceptor(resp)
    /\ IF resp.status = "ok"
       THEN LlmSucceeded(r, Section(r.arg[1], content), FromGenerate(Section(r.arg[1], content)))
       ELSE LlmFailed(r, resp, "Unable to generate content")
    /\ last' = Noted("generate", resp.status, <<r.arg[1], content, ~r.orphan, selectedSection.id>>)
    /\ UNCHANGED <<mounted, interceptors, header, renderedToken, authPageVars, page, project, sections,
                   exporting, savingSection, refinePrompt, sectionForm, projectsPage,
                   serverSections, bypassed>>

\* handleRefine after its first await; setRefinePrompt("") follows the reload it awaits.
RefineResponse(r, resp, content) ==
    /\ r \in inflight /\ r.op = "refine"
    /\ Interceptor(resp)
    /\ IF resp.status = "ok"
       THEN LlmSucceeded(r, Section(r.arg[1], content), FromRefine(Section(r.arg[1], content)))
       ELSE LlmFailed(r, resp, "Unable to refine content")
    /\ last' = Noted("refine", resp.status, <<r.arg[1], content, ~r.orphan, selectedSection.id>>)
    /\ UNCHANGED <<mounted, interceptors, header, renderedToken, authPageVars, page, project, sections,
                   exporting, savingSection, refinePrompt, sectionForm, projectsPage,
                   serverSections, bypassed>>

\* A click on the i-th entry of the section list.
SelectSection(i) ==
    /\ page = "open"
    /\ ~loading
    /\ i \in DOMAIN sections
    /\ selectedSection' = sections[i]
    /\ last' = Did("select", "none")
    /\ UNCHANGED otherVars
    /\ UNCHANGED <<sessionVars, inflight, authPageVars,
                   page, project, sections, loading, error, exporting, savingSection>>

\* Typing in the editor's title input or its content textarea.
EditSection(field, text) ==
    /\ page = "open"
    /\ selectedSection # NoSection
    /\ selectedSection' = [selectedSection EXCEPT ![field] = text]
    /\ last' = Did("edit", "none")
    /\ UNCHANGED otherVars
    /\ UNCHANGED <<sessionVars, inflight, authPageVars,
                   page, project, sections, loading, error, exporting, savingSection>>

\* handleExport up to its await: fetch() is called with the header copied from api.
handleExport(format) ==
    /\ page = "open"
    /\ project # Null
    /\ CanSend(1)
    /\ ~exporting
    /\ exporting' = TRUE
    /\ error' = Null
    /\ inflight' = inflight \cup {Request("export", <<project, format>>)}
    /\ last' = Did("exportClick", "none")
    /\ UNCHANGED otherVars
    /\ UNCHANGED <<sessionVars, authPageVars, page, project, sections, selectedSection, loading,
                   savingSection>>

\* What the export handler leaves in last.note: the file link.click() saved
\* (<<>> when none was) and whether the page was still mounted.
ExportNote(r, saves) == <<IF saves THEN r.arg ELSE <<>>, ~r.orphan>>

\* handleExport without its `if (!response.ok) throw`: every response is saved as a file.
ExportResponseNoStatusCheck(r, resp) ==
    /\ r \in inflight /\ r.op = "export"
    /\ inflight' = inflight \ {r}
    /\ IF r.orphan THEN UNCHANGED <<error, exporting>>
       ELSE /\ exporting' = FALSE
            /\ error' = IF resp.status = "network" THEN "Failed to fetch" ELSE error
    /\ last' = Noted("export", resp.status, ExportNote(r, resp.status # "network"))
    /\ UNCHANGED otherVars
    /\ UNCHANGED <<sessionVars, authPageVars, page, project, sections, selectedSection, loading,
                   savingSection>>

\* handleExport after its await.  fetch() is not the axios instance: its responses
\* do not pass through the response interceptor.  A response that is not ok throws
\* Error("Export failed"); a transport failure rejects with the browser's TypeError.
ExportResponse(r, resp) ==
    /\ r \in inflight /\ r.op = "export"
    /\ inflight' = inflight \ {r}
    /\ IF r.orphan THEN UNCHANGED <<error, exporting>>
       ELSE /\ exporting' = FALSE
            /\ error' = CASE resp.status = "ok" -> error
                          [] resp.status = "network" -> "Failed to fetch"
                          [] OTHER -> "Export failed"
    /\ last' = Noted("export", resp.status, ExportNote(r, resp.status = "ok"))
    /\ UNCHANGED otherVars
    /\ UNCHANGED <<sessionVars, authPageVars, page, project, sections, selectedSection, loading,
                   savingSection>>

----------------------------------------------------------------------------
(* The creation form of ProjectDetailPage, and the server's section list *)

\* Typing in the creation form's title input.
SetSectionForm(title) ==
    /\ page = "open"
    /\ sectionForm.title # title
    /\ sectionForm' = [sectionForm EXCEPT !.title = title]
    /\ last' = Did("sectionForm", "none")
    /\ UNCHANGED <<sessionVars, inflight, authPageVars, pageVars, llmBusy, refinePrompt,
                   projectsPage, serverSections, bypassed>>

\* handleSectionCreate up to its await: the request carries the form's fields.
handleSectionCreate ==
    /\ CanSend(1)
    /\ savingSection' = TRUE
    /\ inflight' = inflight \cup
          {Request("createSection", <<sectionForm.title, sectionForm.content, sectionForm.idx>>)}

\* The creation form's submit button, disabled while savingSection: the browser
\* runs handleSectionCreate only when the required title is filled in.
SectionCreateSubmit ==
    /\ page = "open"
    /\ ~savingSection
    /\ IF Required(sectionForm.title)
       THEN handleSectionCreate
       ELSE UNCHANGED <<savingSection, inflight>>
    /\ last' = Noted("sectionSubmit", "none", <<sectionForm.title>>)
    /\ UNCHANGED <<sessionVars, authPageVars, page, project, sections, selectedSection, loading,
                   error, exporting, editorVars, projectsPage, serverSections, bypassed>>

\* The server creating a section: the list gains one entry with a new id, the
\* title and the content of the request, not generated by the LLM.
CanCreate(list) == \E id \in SectionIds : id \notin Ids(list)
NewId(list) == CHOOSE id \in SectionIds : id \notin Ids(list)
ServerCreate(list, arg) ==
    Append(list, [id |-> NewId(list), title |-> arg[1], content |-> arg[2],
                  initial_generated |-> FALSE])

\* What the fetchSections call of handleSectionCreate is sent with; the model
\* keeps with it the title that was submitted and the server's list before the
\* section was created.
FromCreateOf(title, before) == FromCreate \o <<title, before>>

\* handleSectionCreate resetting the form whatever the outcome.
CreateSectionResponseAlwaysReset(r, resp) ==
    /\ r \in inflight /\ r.op = "createSection"
    /\ Interceptor(resp)
    /\ sectionForm' = IF r.orphan THEN sectionForm ELSE emptySection
    /\ IF resp.status = "ok"
       THEN /\ CanCreate(serverSections)
            /\ serverSections' = ServerCreate(serverSections, r.arg)
            /\ inflight' = (inflight \ {r}) \cup
                  {[r EXCEPT !.op = "fetchSections",
                             !.arg = FromCreateOf(r.arg[1], serverSections)]}
            /\ IF r.orphan THEN UNCHANGED <<loading, error>>
               ELSE /\ loading' = TRUE
                    /\ error' = Null
            /\ UNCHANGED savingSection
       ELSE /\ inflight' = inflight \ {r}
            /\ IF r.orphan THEN UNCHANGED <<error, savingSection>>
               ELSE /\ error' = ErrorText(resp, "Unable to create section")
                    /\ savingSection' = FALSE
            /\ UNCHANGED <<loading, serverSections>>
    /\ last' = Noted("createSection", resp.status, <<~r.orphan, r.arg[1]>>)
    /\ UNCHANGED <<mounted, interceptors, header, renderedToken, authPageVars, page, project, sections,
                   selectedSection, exporting, llmBusy, refinePrompt, projectsPage, bypassed>>

\* handleSectionCreate after its first await: on success setSectionForm(emptySection),
\* then fetchSections() up to its await; on failure the catch and finally blocks.
CreateSectionResponse(r, resp) ==
    /\ r \in inflight /\ r.op = "createSection"
    /\ Interceptor(resp)
    /\ IF resp.status = "ok"
       THEN /\ CanCreate(serverSections)
            /\ serverSections' = ServerCreate(serverSections, r.arg)
            /\ inflight' = (inflight \ {r}) \cup
                  {[r EXCEPT !.op = "fetchSections",
                             !.arg = FromCreateOf(r.arg[1], serverSections)]}
            /\ IF r.orphan THEN UNCHANGED <<sectionForm, loading, error>>
               ELSE /\ sectionForm' = emptySection
                    /\ loading' = TRUE
                    /\ error' = Null
            /\ UNCHANGED savingSection
       ELSE /\ inflight' = inflight \ {r}
            /\ IF r.orphan THEN UNCHANGED <<error, savingSection>>
               ELSE /\ error' = ErrorText(resp, "Unable to create section")
                    /\ savingSection' = FALSE
            /\ UNCHANGED <<sectionForm, loading, serverSections>>
    /\ last' = Noted("createSection", resp.status, <<~r.orphan, r.arg[1]>>)
    /\ UNCHANGED <<mounted, interceptors, header, renderedToken, authPageVars, page, project, sections,
                   selectedSection, exporting, llmBusy, refinePrompt, projectsPage, bypassed>>

----------------------------------------------------------------------------
(* ProjectsPage *)

\* The project lists a response can carry, and the titles a user types.
ProjectLists == {<<>>, <<"P">>}
Titles == {"", "Intro"}

\* The bounds of the generate form's number input (its min and max attributes),
\* and the numbers a user enters there.
MinSections == 1
MaxSections == 20
NumSections == {0, 1, 20, 21}

\* The value of the project <select>: the option of generator.projectId, the
\* first option ("Select project...", value "") when no option has that value.
SelectValue(pp) ==
    IF \E i \in DOMAIN pp.projects : pp.projects[i] = pp.generator.projectId
    THEN pp.generator.projectId
    ELSE ""

\* The generate form without the number input's max attribute.
GeneratorValidNoMax(pp) ==
    /\ Required(SelectValue(pp))
    /\ pp.generator.num_sections >= MinSections

\* The browser's check of the generate form: the select is required, the number
\* input has min and max.
GeneratorValid(pp) ==
    /\ Required(SelectValue(pp))
    /\ pp.generator.num_sections >= MinSections
    /\ pp.generator.num_sections <= MaxSections

\* What a fetchProjects request is sent with: the handler that awaits it.
FromProjectCreate == <<"handleCreate">>
FromProjectGenerate == <<"handleGenerate">>

\* ProjectsPage is mounted: its mount effect runs fetchProjects() up to its await.
OpenProjectsPage ==
    /\ DashboardShown
    /\ page = "closed"
    /\ CanSend(1)
    /\ page' = "projects"
    /\ projectsPage' = NoProjectsPage
    /\ inflight' = inflight \cup {Request("fetchProjects", <<>>)}
    /\ last' = Did("openProjects", "none")
    /\ UNCHANGED <<sessionVars, authPageVars, project, sections, selectedSection, loading, error,
                   exporting, savingSection, editorVars, serverSections, bypassed>>

\* What the ProjectsPage actions leave alone besides the session.
ProjectsPageKeeps ==
    UNCHANGED <<mounted, interceptors, header, renderedToken, authPageVars, pageVars, editorVars,
                serverSections, bypassed>>

\* fetchProjects after its await, and the finally block of the handler that awaited it.
FetchProjectsResponse(r, resp, items) ==
    /\ r \in inflight /\ r.op = "fetchProjects"
    /\ inflight' = inflight \ {r}
    /\ Interceptor(resp)
    /\ projectsPage' =
          IF r.orphan THEN projectsPage
          ELSE [projectsPage EXCEPT
                  !.projects = IF resp.status = "ok" THEN items ELSE @,
                  !.error = IF resp.status = "ok" THEN @
                            ELSE ErrorText(resp, "Unable to load projects"),
                  !.loading = FALSE,
                  !.creating = IF Awaiter(r) = "handleCreate" THEN FALSE ELSE @,
                  !.generating = IF Awaiter(r) = "handleGenerate" THEN FALSE ELSE @]
    /\ last' = Noted("fetchProjects", resp.status, <<~r.orphan, r.arg>>)
    /\ ProjectsPageKeeps

\* Typing in the create form's title input.
SetForm(title) ==
    /\ page = "projects"
    /\ projectsPage.form.title # title
    /\ projectsPage' = [projectsPage EXCEPT !.form.title = title]
    /\ last' = Did("form", "none")
    /\ UNCHANGED <<sessionVars, inflight, authPageVars, pageVars, editorVars,
                   serverSections, bypassed>>

\* Choosing an option of the project select, entering a number of sections.
SetGenerator(field, value) ==
    /\ page = "projects"
    /\ projectsPage.generator[field] # value
    /\ field = "projectId" =>
          value = "" \/ \E i \in DOMAIN projectsPage.projects : projectsPage.projects[i] = value
    /\ projectsPage' = [projectsPage EXCEPT !.generator[field] = value]
    /\ last' = Did("generator", "none")
    /\ UNCHANGED <<sessionVars, inflight, authPageVars, pageVars, editorVars,
                   serverSections, bypassed>>

\* handleCreate up to its await.
ProjectsPage_handleCreate ==
    /\ CanSend(1)
    /\ projectsPage' = [projectsPage EXCEPT !.creating = TRUE]
    /\ inflight' = inflight \cup {Request("createProject", <<projectsPage.form.title>>)}

\* The create form's submit button, disabled while creating: the browser runs
\* handleCreate only when the required title is filled in.
CreateSubmit ==
    /\ page = "projects"
    /\ ~projectsPage.creating
    /\ IF Required(projectsPage.form.title)
       THEN ProjectsPage_handleCreate
       ELSE UNCHANGED <<projectsPage, inflight>>
    /\ last' = Noted("createSubmit", "none", <<projectsPage.form.title>>)
    /\ UNCHANGED <<sessionVars, authPageVars, pageVars, editorVars, serverSections, bypassed>>

\* handleCreate after its first await: on success the form is reset and
\* fetchProjects() runs up to its await; on failure the catch and finally blocks run.
CreateProjectResponse(r, resp) ==
    /\ r \in inflight /\ r.op = "createProject"
    /\ Interceptor(resp)
    /\ IF resp.status = "ok"
       THEN /\ inflight' = (inflight \ {r}) \cup
                              {[r EXCEPT !.op = "fetchProjects", !.arg = FromProjectCreate]}
            /\ projectsPage' =
                  IF r.orphan THEN projectsPage
                  ELSE [projectsPage EXCEPT !.form = defaultProjectForm,
                                            !.loading = TRUE, !.error = Null]
       ELSE /\ inflight' = inflight \ {r}
            /\ projectsPage' =
                  IF r.orphan THEN projectsPage
                  ELSE [projectsPage EXCEPT
                          !.error = ErrorText(resp, "Unable to create project"),
                          !.creating = FALSE]
    /\ last' = Noted("createProject", resp.status, <<~r.orphan>>)
    /\ ProjectsPageKeeps

\* handleGenerate of ProjectsPage up to its await.
ProjectsPage_handleGenerate ==
    IF projectsPage.generator.projectId = ""
    THEN /\ projectsPage' = [projectsPage EXCEPT !.error = "Select a project first"]
         /\ UNCHANGED inflight
    ELSE /\ CanSend(1)
         /\ projectsPage' = [projectsPage EXCEPT !.generating = TRUE, !.error = Null]
         /\ inflight' = inflight \cup
               {Request("generateProject",
                        <<projectsPage.generator.projectId, projectsPage.generator.num_sections>>)}

\* The generate form's submit button, disabled while generating: the browser runs
\* handleGenerate only when the form's controls are valid.
GenerateSubmit ==
    /\ page = "projects"
    /\ ~projectsPage.generating
    /\ IF GeneratorValid(projectsPage)
       THEN ProjectsPage_handleGenerate
       ELSE UNCHANGED <<projectsPage, inflight>>
    /\ last' = Noted("generateSubmit", "none",
                      <<SelectValue(projectsPage), projectsPage.generator.num_sections>>)
    /\ UNCHANGED <<sessionVars, authPageVars, pageVars, editorVars, serverSections, bypassed>>

\* handleGenerate of ProjectsPage after its first await.
GenerateProjectResponse(r, resp) ==
    /\ r \in inflight /\ r.op = "generateProject"
    /\ Interceptor(resp)
    /\ IF resp.status = "ok"
       THEN /\ inflight' = (inflight \ {r}) \cup
                              {[r EXCEPT !.op = "fetchProjects", !.arg = FromProjectGenerate]}
            /\ projectsPage' =
                  IF r.orphan THEN projectsPage
                  ELSE [projectsPage EXCEPT !.loading = TRUE, !.error = Null]
       ELSE /\ inflight' = inflight \ {r}
            /\ projectsPage' =
                  IF r.orphan THEN projectsPage
                  ELSE [projectsPage EXCEPT
                          !.error = ErrorText(resp, "Unable to generate content"),
                          !.generating = FALSE]
    /\ last' = Noted("generateProject", resp.status, <<~r.orphan>>)
    /\ ProjectsPageKeeps

----------------------------------------------------------------------------
(* Specifications *)

\* What localStorage may hold when the application starts.
InitialStored ==
    {Absent, EmptyText, GarbageText, JsonNullText,
     JSONstringify(NullState),
     JSONstringify([accessToken |-> "t1", refreshToken |-> "r1", userEmail |-> "u1"]),
     JSONstringify([accessToken |-> "t1", refreshToken |-> Undef, userEmail |-> Undef])}

PageInit ==
    /\ page = "closed"
    /\ project = Null
    /\ sections = <<>>
    /\ selectedSection = NoSection
    /\ loading = TRUE
    /\ error = Null
    /\ exporting = FALSE
    /\ savingSection = FALSE
    /\ llmBusy = FALSE
    /\ refinePrompt = ""
    /\ sectionForm = emptySection
    /\ projectsPage = NoProjectsPage
    /\ serverSections = <<>>
    /\ bypassed = FALSE

Init ==
    /\ mounted = FALSE
    /\ interceptors = 0
    /\ storage \in InitialStored
    /\ authState = NullState
    /\ header = NoHeader
    /\ renderedToken = Null
    /\ inflight = {}
    /\ loginPage = NoPage
    /\ registerPage = NoPage
    /\ PageInit
    /\ last = Did("none", "none")

\* The session's operations, for the passwords a user may type.
SessionNext(passwords) ==
    \/ AuthProviderInit
    \/ Render
    \/ logout
    \/ \E e \in Emails, p \in passwords : LoginSubmit(e, p)
    \/ \E r \in inflight, t \in AccessTokens, rt \in RefreshValues :
          LoginResponse(r, OkResponse, t, rt)
    \/ \E r \in inflight, resp \in Failures : LoginResponse(r, resp, Null, Null)
    \/ \E e \in Emails, p \in passwords, c \in Passwords : RegisterSubmit(e, p, c)
    \/ \E r \in inflight, resp \in Responses : RegisterResponse(r, resp)
    \/ \E r \in inflight, t \in AccessTokens, rt \in RefreshValues :
          RegisterLoginResponse(r, OkResponse, t, rt)
    \/ \E r \in inflight, resp \in Failures : RegisterLoginResponse(r, resp, Null, Null)

\* The page's requests, for the section lists the server may return and the
\* export formats a user may pick.
PageNext(lists, formats) ==
    \/ OpenPage
    \/ \E r \in inflight, t \in ProjectTitles : FetchProjectResponse(r, OkResponse, t)
    \/ \E r \in inflight, resp \in Failures : FetchProjectResponse(r, resp, Null)
    \/ \E r \in inflight, items \in lists : FetchSectionsResponse(r, OkResponse, items)
    \/ \E r \in inflight, resp \in Failures : FetchSectionsResponse(r, resp, <<>>)
    \/ \E f \in formats : handleExport(f)
    \/ \E r \in inflight, resp \in Responses : ExportResponse(r, resp)

\* What a user types into the editor.
Typed == {"typed"}

EditNext ==
    \/ \E i \in 1..Cardinality(SectionIds) : SelectSection(i)
    \/ \E c \in Typed : EditSection("content", c)
    \/ \E t \in Typed : EditSection("title", t)
    \/ handleSectionUpdate
    \/ \E r \in inflight, resp \in Responses : UpdateResponse(r, resp)

\* The whole client, with one password, one export format and section lists of
\* at most one section.
OnePassword == {"p1"}
OneFormat == {"docx"}
ShortLists == {items \in SectionLists : Len(items) <= 1}

Next == SessionNext(OnePassword) \/ PageNext(ShortLists, OneFormat)

Spec == Init /\ [][Next]_vars

\* The project detail page of a signed-in user, with every section list.
SignedIn == [accessToken |-> "t1", refreshToken |-> "r1", userEmail |-> "u1"]

PageSpecInit ==
    /\ mounted = TRUE
    /\ interceptors = 1
    /\ storage = JSONstringify(SignedIn)
    /\ authState = SignedIn
    /\ header = SetAuthHeader("t1")
    /\ renderedToken = "t1"
    /\ inflight = {}
    /\ loginPage = NoPage
    /\ registerPage = NoPage
    /\ PageInit
    /\ last = Did("none", "none")

PageSpecNext == Render \/ logout \/ PageNext(SectionLists, ExportFormats) \/ EditNext

PageSpec == PageSpecInit /\ [][PageSpecNext]_vars

\* The section editor of a signed-in user: selection, typing, generate and refine
\* through the buttons.
EditorLists == {items \in SectionLists : \A i \in DOMAIN items : items[i].id \in {"A", "B"}}

\* The page has been opened and its project has arrived; the section list is awaited.
EditorInit ==
    /\ mounted = TRUE
    /\ interceptors = 1
    /\ storage = JSONstringify(SignedIn)
    /\ authState = SignedIn
    /\ header = SetAuthHeader("t1")
    /\ renderedToken = "t1"
    /\ inflight = {Request("fetchSections", <<>>)}
    /\ loginPage = NoPage
    /\ registerPage = NoPage
    /\ page = "open"
    /\ project = "P"
    /\ sections = <<>>
    /\ selectedSection = NoSection
    /\ loading = TRUE
    /\ error = Null
    /\ exporting = FALSE
    /\ savingSection = FALSE
    /\ llmBusy = FALSE
    /\ refinePrompt = ""
    /\ sectionForm = emptySection
    /\ projectsPage = NoProjectsPage
    /\ serverSections = <<>>
    /\ bypassed = FALSE
    /\ last = Did("fetchProject", "ok")

\* One failure of each kind: no response, a 401, a server error with a detail.
EditorFailures ==
    {[status |-> "network", detail |-> FALSE], [status |-> "401", detail |-> FALSE],
     [status |-> "500", detail |-> TRUE]}

\* What the server answers in both specifications of the editor.
EditorResponses ==
    \/ \E r \in inflight, items \in EditorLists : FetchSectionsResponse(r, OkResponse, items)
    \/ \E r \in inflight, resp \in EditorFailures : FetchSectionsResponse(r, resp, <<>>)
    \/ \E r \in inflight, c \in Generated : GenerateResponse(r, OkResponse, c)
    \/ \E r \in inflight, resp \in EditorFailures : GenerateResponse(r, resp, Null)
    \/ \E r \in inflight, c \in Generated : RefineResponse(r, OkResponse, c)
    \/ \E r \in inflight, resp \in EditorFailures : RefineResponse(r, resp, Null)

EditorNext ==
    \/ Render
    \/ \E i \in 1..Cardinality(SectionIds) : SelectSection(i)
    \/ \E c \in Typed : EditSection("content", c)
    \/ \E text \in Instructions : SetRefinePrompt(text)
    \/ GenerateClick
    \/ RefineClick
    \/ handleSectionUpdate
    \/ \E r \in inflight, resp \in Responses : UpdateResponse(r, resp)
    \/ EditorResponses

EditorSpec == EditorInit /\ [][EditorNext]_vars

\* The editor with the buttons' gating bypassed: the handlers are also called
\* while llmBusy is set.
BypassNext ==
    \/ Render
    \/ \E i \in 1..Cardinality(SectionIds) : SelectSection(i)
    \/ GenerateClick
    \/ RefineClick
    \/ llmBusy /\ handleGenerate
    \/ llmBusy /\ handleRefine
    \/ EditorResponses

BypassSpec == EditorInit /\ [][BypassNext]_vars

\* The creation form against a server that keeps the project's sections: every
\* list response carries the server's list, and only a create changes it.
ServerLists == {<<>>, <<Section("A", "c0")>>}

CreateInit ==
    /\ mounted = TRUE
    /\ interceptors = 1
    /\ storage = JSONstringify(SignedIn)
    /\ authState = SignedIn
    /\ header = SetAuthHeader("t1")
    /\ renderedToken = "t1"
    /\ inflight = {Request("fetchSections", <<>>)}
    /\ loginPage = NoPage
    /\ registerPage = NoPage
    /\ page = "open"
    /\ project = "P"
    /\ sections = <<>>
    /\ selectedSection = NoSection
    /\ loading = TRUE
    /\ error = Null
    /\ exporting = FALSE
    /\ savingSection = FALSE
    /\ llmBusy = FALSE
    /\ refinePrompt = ""
    /\ sectionForm = emptySection
    /\ projectsPage = NoProjectsPage
    /\ serverSections \in ServerLists
    /\ bypassed = FALSE
    /\ last = Did("fetchProject", "ok")

CreateNext ==
    \/ Render
    \/ \E i \in 1..Cardinality(SectionIds) : SelectSection(i)
    \/ \E t \in Titles : SetSectionForm(t)
    \/ SectionCreateSubmit
    \/ \E r \in inflight, resp \in Responses : CreateSectionResponse(r, resp)
    \/ \E r \in inflight : FetchSectionsResponse(r, OkResponse, serverSections)
    \/ \E r \in inflight, resp \in EditorFailures : FetchSectionsResponse(r, resp, <<>>)

CreateSpec == CreateInit /\ [][CreateNext]_vars

\* The forms of the client: registration by a signed-out user, then the forms
\* of the page the registered user opens.
SignedOutInit ==
    /\ mounted = TRUE
    /\ interceptors = 1
    /\ storage = Absent
    /\ authState = NullState
    /\ header = NoHeader
    /\ renderedToken = Null
    /\ inflight = {}
    /\ loginPage = NoPage
    /\ registerPage = NoPage
    /\ PageInit
    /\ last = Did("init", "none")

OneEmail == {"u1"}

\* One failure that does not end the session, and one number of sections.
ServerError == {[status |-> "500", detail |-> TRUE]}
OneNumber == {1}

\* What happens on ProjectsPage, for the numbers a user may enter and the
\* failures the server may answer with.
ProjectsNext(numbers, failures) ==
    \/ OpenProjectsPage
    \/ \E t \in Titles : SetForm(t)
    \/ \E id \in {"", "P"} : SetGenerator("projectId", id)
    \/ \E n \in numbers : SetGenerator("num_sections", n)
    \/ CreateSubmit
    \/ GenerateSubmit
    \/ \E r \in inflight, items \in ProjectLists : FetchProjectsResponse(r, OkResponse, items)
    \/ \E r \in inflight, resp \in failures : FetchProjectsResponse(r, resp, <<>>)
    \/ \E r \in inflight : CreateProjectResponse(r, OkResponse)
    \/ \E r \in inflight, resp \in failures : CreateProjectResponse(r, resp)
    \/ \E r \in inflight : GenerateProjectResponse(r, OkResponse)
    \/ \E r \in inflight, resp \in failures : GenerateProjectResponse(r, resp)

FormsNext ==
    \/ Render
    \/ \E e \in OneEmail, p \in OnePassword, c \in Passwords : RegisterSubmit(e, p, c)
    \/ \E r \in inflight : RegisterResponse(r, OkResponse)
    \/ \E r \in inflight, resp \in ServerError : RegisterResponse(r, resp)
    \/ \E r \in inflight, t \in AccessTokens, rt \in RefreshValues :
          RegisterLoginResponse(r, OkResponse, t, rt)
    \/ \E r \in inflight, resp \in ServerError : RegisterLoginResponse(r, resp, Null, Null)
    \/ OpenPage
    \/ \E r \in inflight, t \in ProjectTitles : FetchProjectResponse(r, OkResponse, t)
    \/ \E r \in inflight, resp \in ServerError : FetchProjectResponse(r, resp, Null)
    \/ \E r \in inflight, items \in ShortLists : FetchSectionsResponse(r, OkResponse, items)
    \/ \E r \in inflight, resp \in ServerError : FetchSectionsResponse(r, resp, <<>>)
    \/ \E t \in Titles : SetSectionForm(t)
    \/ SectionCreateSubmit
    \/ \E r \in inflight : CreateSectionResponse(r, OkResponse)
    \/ \E r \in inflight, resp \in ServerError : CreateSectionResponse(r, resp)
    \/ ProjectsNext(OneNumber, ServerError)

FormsSpec == SignedOutInit /\ [][FormsNext]_vars

\* ProjectsPage of a signed-in user, with numbers of sections inside and
\* outside the number input's bounds.
ProjectsSpecNext == Render \/ ProjectsNext(NumSections, EditorFailures)

ProjectsSpec == PageSpecInit /\ [][ProjectsSpecNext]_vars

\* Both pages of a signed-in user with every operation that sets a busy or
\* loading flag, each started through its button or form, and every request
\* answered in the end.
TransportFailure == {[status |-> "network", detail |-> FALSE]}
BusyFailures == TransportFailure \cup ServerError

\* The requests fall into groups of which the buttons' gating lets at most one
\* be in flight: a page's first list request; the project request; what a save,
\* a section creation or a project creation sends, its reload included; what
\* generate, refine or the generate form sends, its reload included; the export.
Group(r) ==
    CASE r.op \in {"fetchSections", "fetchProjects"} /\ Awaiter(r) = "mount" -> "load"
      [] r.op = "fetchProject" -> "project"
      [] r.op \in {"update", "createSection", "createProject"} -> "save"
      [] r.op \in {"fetchSections", "fetchProjects"}
           /\ Awaiter(r) \in {"handleSectionUpdate", "handleSectionCreate", "handleCreate"} -> "save"
      [] r.op = "export" -> "export"
      [] OTHER -> "generate"

Groups == {"load", "project", "save", "generate", "export"}

\* A request in flight gets its response, or fails, and its handler runs on.
Respond(r) ==
    \/ \E t \in ProjectTitles : FetchProjectResponse(r, OkResponse, t)
    \/ \E resp \in BusyFailures : FetchProjectResponse(r, resp, Null)
    \/ \E items \in ServerLists : FetchSectionsResponse(r, OkResponse, items)
    \/ \E resp \in BusyFailures : FetchSectionsResponse(r, resp, <<>>)
    \/ UpdateResponse(r, OkResponse)
    \/ \E resp \in BusyFailures : UpdateResponse(r, resp)
    \/ CreateSectionResponse(r, OkResponse)
    \/ \E resp \in BusyFailures : CreateSectionResponse(r, resp)
    \/ \E c \in Generated : GenerateResponse(r, OkResponse, c)
    \/ \E resp \in BusyFailures : GenerateResponse(r, resp, Null)
    \/ \E c \in Generated : RefineResponse(r, OkResponse, c)
    \/ \E resp \in BusyFailures : RefineResponse(r, resp, Null)
    \/ ExportResponse(r, OkResponse)
    \/ \E resp \in BusyFailures : ExportResponse(r, resp)
    \/ \E items \in ProjectLists : FetchProjectsResponse(r, OkResponse, items)
    \/ \E resp \in BusyFailures : FetchProjectsResponse(r, resp, <<>>)
    \/ CreateProjectResponse(r, OkResponse)
    \/ \E resp \in BusyFailures : CreateProjectResponse(r, resp)
    \/ GenerateProjectResponse(r, OkResponse)
    \/ \E resp \in BusyFailures : GenerateProjectResponse(r, resp)

\* What the user starts on either page.
BusyStarts ==
    \/ OpenPage
    \/ OpenProjectsPage
    \/ handleSectionUpdate
    \/ SetSectionForm("Intro")
    \/ SectionCreateSubmit
    \/ GenerateClick
    \/ RefineClick
    \/ \E f \in OneFormat : handleExport(f)
    \/ SetForm("Intro")
    \/ SetGenerator("projectId", "P")
    \/ CreateSubmit
    \/ GenerateSubmit

BusyNext == BusyStarts \/ \E r \in inflight : Respond(r)

\* Every request is answered in the end: the request of each group does not
\* wait forever.
Answered(group) == \E r \in inflight : Group(r) = group /\ Respond(r)

BusySpec ==
    /\ PageSpecInit
    /\ [][BusyNext]_vars
    /\ \A group \in Groups : WF_vars(Answered(group))

\* A request sent through api is rejected with `resp`, and the catch block of
\* its handler runs.
Rejected(r, resp) ==
    \/ FetchProjectResponse(r, resp, Null)
    \/ FetchSectionsResponse(r, resp, <<>>)
    \/ UpdateResponse(r, resp)
    \/ CreateSectionResponse(r, resp)
    \/ GenerateResponse(r, resp, Null)
    \/ RefineResponse(r, resp, Null)
    \/ FetchProjectsResponse(r, resp, <<>>)
    \/ CreateProjectResponse(r, resp)
    \/ GenerateProjectResponse(r, resp)

\* A request sent through api gets a 2xx response, and its handler runs on.
Resolved(r) ==
    \/ \E t \in ProjectTitles : FetchProjectResponse(r, OkResponse, t)
    \/ \E items \in ServerLists : FetchSectionsResponse(r, OkResponse, items)
    \/ UpdateResponse(r, OkResponse)
    \/ CreateSectionResponse(r, OkResponse)
    \/ \E c \in Generated : GenerateResponse(r, OkResponse, c)
    \/ \E c \in Generated : RefineResponse(r, OkResponse, c)
    \/ \E items \in ProjectLists : FetchProjectsResponse(r, OkResponse, items)
    \/ CreateProjectResponse(r, OkResponse)
    \/ GenerateProjectResponse(r, OkResponse)

\* Both pages of a signed-in user, with every operation that goes through api
\* and every way its request can fail.
ErrorNext ==
    \/ Render
    \/ OpenPage
    \/ OpenProjectsPage
    \/ handleSectionUpdate
    \/ SetSectionForm("Intro")
    \/ SectionCreateSubmit
    \/ GenerateClick
    \/ RefineClick
    \/ SetForm("Intro")
    \/ SetGenerator("projectId", "P")
    \/ CreateSubmit
    \/ GenerateSubmit
    \/ \E r \in inflight : Resolved(r)
    \/ \E r \in inflight, resp \in Failures : Rejected(r, resp)

ErrorSpec == PageSpecInit /\ [][ErrorNext]_vars

\* The session with the provider unmounted and constructed again at any moment.
MountNext ==
    \/ AuthProviderInit
    \/ AuthProviderUnmount
    \/ Render
    \/ logout
    \/ \E e \in OneEmail, p \in OnePassword : LoginSubmit(e, p)
    \/ \E r \in inflight, t \in AccessTokens, rt \in RefreshValues :
          LoginResponse(r, OkResponse, t, rt)
    \/ \E r \in inflight, resp \in EditorFailures : LoginResponse(r, resp, Null, Null)
    \/ \E e \in OneEmail, p \in OnePassword, c \in Passwords : RegisterSubmit(e, p, c)
    \/ \E r \in inflight : RegisterResponse(r, OkResponse)
    \/ \E r \in inflight, resp \in EditorFailures : RegisterResponse(r, resp)
    \/ \E r \in inflight, t \in AccessTokens, rt \in RefreshValues :
          RegisterLoginResponse(r, OkResponse, t, rt)
    \/ \E r \in inflight, resp \in EditorFailures : RegisterLoginResponse(r, resp, Null, Null)
    \/ \E r \in inflight, t \in AccessTokens, rt \in RefreshValues :
          StaleLoginResponse(r, OkResponse, t, rt)
    \/ \E r \in inflight, resp \in EditorFailures : StaleLoginResponse(r, resp, Null, Null)
    \/ \E r \in inflight : StaleRegisterResponse(r, OkResponse)
    \/ \E r \in inflight, resp \in EditorFailures : StaleRegisterResponse(r, resp)

MountSpec == Init /\ [][MountNext]_vars

----------------------------------------------------------------------------
(* Properties of the session store *)

Authenticated(state) == Truthy(state.accessToken)

\* C1.  Every response with status 401, to a request of any operation (export
\* included), leaves the Credential all-null and localStorage without the entry.
C1_Every401EndsSession ==
    last.status = "401" => authState = NullState /\ storage = Absent

LoginSucceeded == last.act \in {"login", "registerLogin"} /\ last.status = "ok"

\* C2.  When login has succeeded the Credential holds the access token of the
\* response and the identity given to login, both present, and the
\* Authorization header is "Bearer <that token>".
C2_LoginSuccess ==
    LoginSucceeded =>
        /\ Truthy(authState.accessToken) /\ authState.accessToken = last.note[2]
        /\ Truthy(authState.userEmail) /\ authState.userEmail = last.note[1]
        /\ authState.refreshToken = last.note[3]
        /\ header = <<"Bearer", last.note[2]>>

C2_Witness ==
    /\ last = Noted("login", "ok", <<"u2", "t2", Null>>)
    /\ authState.userEmail = "u2"
    /\ header = <<"Bearer", "t2">>

\* C3 as claimed.  After logout the Credential is all-null, the header is absent
\* and localStorage holds no entry under the key.
C3_LogoutRemovesRecord ==
    last.act = "logout" => authState = NullState /\ header = NoHeader /\ storage = Absent

\* C3 as amended.  After logout the Credential is all-null, the header is absent
\* and localStorage holds the serialized all-null Credential, which the
\* initializer reads back as an unauthenticated session.
C3_LogoutStoresNullRecord ==
    last.act = "logout" =>
        /\ authState = NullState
        /\ header = NoHeader
        /\ storage = JSONstringify(NullState)
        /\ storage # Absent
        /\ InitialAuthState(storage) = NullState

C3_Witness == last.act = "logout" /\ renderedToken = "t2"

\* C4.  A logout called right after a logout leaves the Credential, the header
\* and localStorage exactly as the first call left them.
C4_LogoutIdempotent ==
    [][(last.act = "logout" /\ last'.act = "logout")
          => UNCHANGED <<authState, header, storage>>]_vars

C4_Witness == last = Did("logout", "again")

\* The step is a LoginPage login that failed; Handled is the request it answered.
LoginFailedStep == last'.act = "login" /\ last'.status # "ok"
Handled == inflight \ inflight'

\* C5 as claimed.  A login that fails, with whatever error, leaves the
\* Credential, the header and localStorage unchanged and sets the caller's error.
C5_LoginFailureChangesNothing ==
    [][LoginFailedStep =>
          /\ UNCHANGED <<authState, header, storage>>
          /\ \A r \in Handled : ~r.orphan => loginPage'.error \in {"detail", "Unable to login"}]_vars

\* C5 as amended.  A login that fails with anything but a 401 response leaves
\* the Credential, the header and localStorage unchanged; one that fails with a
\* 401 response leaves the header unchanged while the interceptor sets the
\* Credential all-null and removes the localStorage entry.  Either way the
\* caller's error is set and its loading flag cleared.
C5_LoginFailure ==
    [][LoginFailedStep =>
          /\ header' = header
          /\ last'.status # "401" => UNCHANGED <<authState, storage>>
          /\ last'.status = "401" => authState' = NullState /\ storage' = Absent
          /\ \A r \in Handled :
                ~r.orphan => /\ loginPage'.error \in {"detail", "Unable to login"}
                             /\ ~loginPage'.loading]_vars

C5_Witness ==
    /\ last = Noted("login", "500", <<"u1">>)
    /\ loginPage = [loading |-> FALSE, error |-> "Unable to login"]
    /\ storage = JSONstringify(NullState)

\* C6.  In every state of the constructed AuthProvider the accessToken and the
\* userEmail of the Credential are both present or both absent.
C6_TokenAndIdentityPaired ==
    mounted => (Truthy(authState.accessToken) <=> Truthy(authState.userEmail))

\* C7.  In every state of the constructed AuthProvider the Authorization header
\* and the persisted Credential agree: the header carries exactly the access
\* token that localStorage holds, and is absent when localStorage holds none.
C7_HeaderMatchesStorage ==
    mounted => header = SetAuthHeader(InitialAuthState(storage).accessToken)

\* The entry under the key reads as an object when JSON.parse returns one.
ParsesToObject(stored) == stored.kind = "object"

\* C8.  At construction, an entry that parses becomes the Credential
\* and its access token the header; an entry that fails to parse is removed,
\* and the session starts all-null without a header.
C8_InitRemovesUnparsable ==
    [][last'.act = "init" =>
          IF storage = Absent
          THEN authState' = NullState /\ header' = NoHeader
          ELSE IF ParsesToObject(storage)
          THEN /\ authState' = JSONparse(storage)
               /\ header' = SetAuthHeader(JSONparse(storage).accessToken)
          ELSE /\ storage' = Absent
               /\ authState' = NullState
               /\ header' = NoHeader]_vars

\* The login request of a register call is sent in this step: one is in flight
\* afterwards with arguments that none in flight before had.
SendsRegisterLogin(arg) ==
    /\ \E q \in inflight' : q.op = "registerLogin" /\ q.arg = arg
    /\ ~\E q \in inflight : q.op = "registerLogin" /\ q.arg = arg

\* The login request is sent only by the step that handles the success of a
\* registration request with the same identity and secret.
C9_LoginOnlyAfterRegistration ==
    \A e \in Emails, p \in Passwords :
        SendsRegisterLogin(<<e, p>>) =>
            /\ last'.act = "register" /\ last'.status = "ok"
            /\ \E r \in Handled : r.op = "register" /\ r.arg = <<e, p>>

RegistrationFailedStep == last'.act = "register" /\ last'.status # "ok"

\* A login that fails after a successful registration does not authenticate
\* the session, and sets the caller's error.
C9_FailedLoginAfterRegistration ==
    (last'.act = "registerLogin" /\ last'.status # "ok") =>
        /\ ~Authenticated(authState) => ~Authenticated(authState')
        /\ \A r \in Handled :
              ~r.orphan => /\ registerPage'.error \in {"detail", "Unable to register"}
                           /\ ~registerPage'.loading

\* C9 as claimed.  register sends its login request only once the registration
\* has succeeded, with the same identity and secret; a failed registration
\* sends no login request and leaves the Credential unchanged; a login that
\* fails after a successful registration leaves the session unauthenticated and
\* sets the caller's error.
C9_RegisterLeavesCredential ==
    [][/\ C9_LoginOnlyAfterRegistration
       /\ RegistrationFailedStep => authState' = authState
       /\ C9_FailedLoginAfterRegistration]_vars

\* C9 as amended.  As claimed, except that a registration that fails with a 401
\* response has the interceptor set the Credential all-null and remove the
\* localStorage entry; with any other failure the Credential is unchanged.
C9_Register ==
    [][/\ C9_LoginOnlyAfterRegistration
       /\ RegistrationFailedStep =>
             /\ last'.status # "401" => UNCHANGED <<authState, storage>>
             /\ last'.status = "401" => authState' = NullState /\ storage' = Absent
             /\ header' = header
       /\ C9_FailedLoginAfterRegistration]_vars

C9_Witness ==
    /\ last = Noted("registerLogin", "500", <<"u1">>)
    /\ registerPage = [loading |-> FALSE, error |-> "Unable to register"]
    /\ ~Authenticated(authState)

----------------------------------------------------------------------------
(* Properties of the project detail page *)

\* The step just taken applied a section list to the mounted page; last.note
\* holds the id that was selected before it.
ReloadApplied == last.act = "fetchSections" /\ last.status = "ok" /\ last.note[2]

\* C10.  After a successful reload is applied: an empty list leaves nothing
\* selected; with nothing selected before, the first section is selected; a
\* selected id that is in the new list stays selected; a selected id that is
\* not falls back to the first section.
C10_SelectionAfterReload ==
    ReloadApplied =>
        LET prev == last.note[1] IN
        IF sections = <<>> THEN selectedSection = NoSection
        ELSE IF prev = Null THEN selectedSection = sections[1]
        ELSE IF prev \in Ids(sections)
        THEN selectedSection.id = prev
        ELSE selectedSection = sections[1]

\* The list [A, B, C] with C selected has been reloaded as [A, B]: A is selected.
C10_Witness ==
    /\ ReloadApplied
    /\ last.note[1] = "C"
    /\ Len(sections) = 2
    /\ sections[1].id = "A" /\ sections[2].id = "B"
    /\ selectedSection.id = "A"

\* C15.  An export answered with a non-success status, or not answered at all,
\* saves no file; on a mounted page it leaves a non-empty message in the error
\* slot and the exporting flag false.  A file is saved only on a success status.
C15_ExportFailure ==
    last.act = "export" =>
        /\ last.status # "ok" =>
              /\ last.note[1] = <<>>
              /\ last.note[2] => error \notin {Null, ""} /\ ~exporting
        /\ last.note[1] # <<>> => last.status = "ok"

C15_Witness ==
    /\ last = Noted("export", "500", <<<<>>, TRUE>>)
    /\ error = "Export failed"
    /\ ~exporting

----------------------------------------------------------------------------
(* Properties of the section editor *)

\* A generate response with a success status has just been handled on the mounted
\* page; last.note holds the request's section id, the returned content and the
\* id that was selected when the response arrived.
GenerateApplied == last.act = "generate" /\ last.status = "ok" /\ last.note[3]

\* The reload that a successful generate awaits has just been applied on the
\* mounted page; last.note[3] holds the id and the content generate returned.
GenerateReloaded ==
    /\ last.act = "fetchSections" /\ last.status = "ok" /\ last.note[2]
    /\ last.note[3] # <<>> /\ last.note[3][1] = "handleGenerate"

\* C11 as claimed.  After generate succeeds the buffer's id is the request's
\* section id and its content the returned content, when the response is handled
\* and still after the list reload it triggers has been applied.
C11_GenerateBufferKept ==
    /\ GenerateApplied =>
          selectedSection.id = last.note[1] /\ selectedSection.content = last.note[2]
    /\ GenerateReloaded =>
          selectedSection.id = last.note[3][2] /\ selectedSection.content = last.note[3][3]

\* C11 as amended.  When the generate response is handled the buffer becomes the
\* returned section (the request's id, the returned content), whatever was
\* selected meanwhile.  The reload it triggers then re-selects by id like any
\* reload: the buffer becomes the reloaded list's entry for the id selected when
\* the reload arrives, the first entry when the list lacks that id, none when
\* the list is empty; and llmBusy is cleared.
C11_Generate ==
    /\ GenerateApplied =>
          selectedSection = Section(last.note[1], last.note[2])
    /\ GenerateReloaded =>
          /\ selectedSection = SelectionEffect(sections, [NoSection EXCEPT !.id = last.note[1]])
          /\ sections # <<>> => \E i \in DOMAIN sections : selectedSection = sections[i]
          /\ last.note[1] \in Ids(sections) => selectedSection.id = last.note[1]

\* Generate was requested for A, B was selected while the request was in flight,
\* and the response made the generated A the buffer.
C11_Witness ==
    /\ GenerateApplied
    /\ last.note[1] = "A"
    /\ last.note[4] = "B"
    /\ selectedSection = Section("A", "g")
    /\ \E r \in inflight : r.op = "fetchSections" /\ r.arg = FromGenerate(Section("A", "g"))

\* The step applies, on the mounted page, the reload that the named handler awaits.
ReloadDoneFor(handler) ==
    /\ last'.act = "fetchSections" /\ last'.note[2]
    /\ last'.note[3] # <<>> /\ last'.note[3][1] = handler

\* C12.  A refine request carries the buffer's content as prompt, unsaved edits
\* included, and the instruction typed; when it succeeds the returned section
\* becomes the buffer, and the instruction is cleared when the reload it awaits
\* completes, successfully or not; when it fails the buffer and the instruction
\* are unchanged.
C12_Refine ==
    [][/\ \A q \in inflight' \ inflight :
             (q.op = "refine" /\ ~q.orphan) =>
                 /\ q.arg[1] = selectedSection.id
                 /\ q.arg[2] = selectedSection.content
                 /\ q.arg[3] = refinePrompt
       /\ (last'.act = "refine" /\ last'.status = "ok" /\ last'.note[3]) =>
             selectedSection' = Section(last'.note[1], last'.note[2])
       /\ ReloadDoneFor("handleRefine") => refinePrompt' = ""
       /\ (last'.act = "refine" /\ last'.status # "ok") =>
             UNCHANGED <<selectedSection, refinePrompt>>]_vars

\* A refine has succeeded and made the returned section the buffer, the reload it
\* awaited has failed, and the instruction that was typed is cleared.
C12_Witness ==
    /\ last.act = "fetchSections" /\ last.status = "500" /\ last.note[2]
    /\ last.note[3] = FromRefine(Section("A", "g"))
    /\ last.note[4] = "shorter"
    /\ refinePrompt = ""
    /\ selectedSection = Section("A", "g")

\* The generate and refine operations running on the mounted page: their own
\* requests and the reloads they await.
LlmOps(requests) ==
    {r \in requests :
        /\ ~r.orphan
        /\ \/ r.op \in {"generate", "refine"}
           \/ r.op = "fetchSections" /\ Awaiter(r) \in {"handleGenerate", "handleRefine"}}

\* While the buttons' gating has not been bypassed at most one generate or refine
\* operation runs, and llmBusy is set exactly while one does.
GatedOneAtATime(busy, requests) ==
    /\ Cardinality(LlmOps(requests)) <= 1
    /\ busy <=> LlmOps(requests) # {}

\* C18 as claimed.  Gated, at most one generate or refine operation runs and
\* llmBusy is set exactly while it does; with the gating bypassed llmBusy stays
\* set until the last of the overlapping operations has completed.
C18_BusyUntilLast ==
    /\ ~bypassed => GatedOneAtATime(llmBusy, inflight)
    /\ LlmOps(inflight) # {} => llmBusy

\* The step completes a generate or refine operation on the mounted page.
LlmCompletes ==
    \/ last'.act \in {"generate", "refine"} /\ last'.status # "ok" /\ last'.note[3]
    \/ ReloadDoneFor("handleGenerate")
    \/ ReloadDoneFor("handleRefine")

\* C18 as amended.  Gated, at most one generate or refine operation runs and
\* llmBusy is set exactly while it does, its reload included; with the gating
\* bypassed llmBusy is cleared when the first of the overlapping operations
\* completes, whether or not another still runs.
C18_Busy ==
    [][/\ ~bypassed' => GatedOneAtATime(llmBusy', inflight')
       /\ LlmCompletes => ~llmBusy']_vars

\* Two operations overlapped, one has completed and cleared llmBusy, the other runs.
C18_Witness ==
    /\ page = "open"
    /\ bypassed
    /\ ~llmBusy
    /\ LlmOps(inflight) # {}

----------------------------------------------------------------------------
(* Properties of the header and of a page reload *)

\* The requests a step sends from a mounted component.
Sent == {q \in inflight' \ inflight : ~q.orphan}

\* C19.  Every request is sent with the Authorization header that matches the
\* Credential at that moment: "Bearer <accessToken>" when the accessToken is
\* present, no header when it is absent.
C19_HeaderMatchesCredentialAtSend ==
    [][Sent # {} => header' = SetAuthHeader(authState'.accessToken)]_vars

\* No transition of the session is in progress: the provider is constructed, the
\* last change of authState has been rendered and no request is awaited.
SessionAtRest == mounted /\ renderedToken = authState.accessToken /\ inflight = {}

\* C20.  With no transition of the session in progress, constructing the
\* provider again from localStorage (a page reload) gives the Credential that is
\* in memory and the Authorization header that is set.
C20_ReloadGivesSameSession ==
    SessionAtRest =>
        /\ InitialAuthState(storage) = authState
        /\ SetAuthHeader(InitialAuthState(storage).accessToken) = header

----------------------------------------------------------------------------
(* Properties of the forms *)

\* The step is a click on the generate form's submit button.
GenerateSubmitted == last'.act = "generateSubmit"

\* C14.  A generate form submitted with a number of sections below 1 or above
\* 20 sends no request and does not set the generating flag.
C14_NumSectionsChecked ==
    [][(GenerateSubmitted /\ projectsPage.generator.num_sections \notin 1..20) =>
          /\ inflight' = inflight
          /\ ~projectsPage'.generating]_vars

\* The form was submitted with project P selected and 21 sections: nothing was
\* sent and generating is not set.
C14_Witness ==
    /\ last = Noted("generateSubmit", "none", <<"P", 21>>)
    /\ ~projectsPage.generating
    /\ \A r \in inflight : r.op # "generateProject"

\* C17.  A generate form submitted with no project selected, a registration
\* whose password and confirmation differ, and a project or section creation
\* form submitted with an empty title send no request.
C17_InvalidNotSent ==
    [][/\ (GenerateSubmitted /\ last'.note[1] = "") => inflight' = inflight
       /\ (last'.act = "registerSubmit" /\ last'.note[1] # last'.note[2]) => inflight' = inflight
       /\ (last'.act = "createSubmit" /\ projectsPage.form.title = "") => inflight' = inflight
       /\ (last'.act = "sectionSubmit" /\ sectionForm.title = "") => inflight' = inflight]_vars

\* A section creation form was submitted with an empty title by a user who
\* registered, and nothing is in flight.
C17_Witness ==
    /\ last = Noted("sectionSubmit", "none", <<"">>)
    /\ page = "open"
    /\ inflight = {}
    /\ ~savingSection

\* The entries of a list.
Entries(items) == {items[i] : i \in DOMAIN items}

\* The step handles, on the mounted page, the response to a create request.
CreateHandled == last'.act = "createSection" /\ last'.note[1]

\* C16.  With the creation form the only writer: when a create succeeds the form
\* is reset to emptySection and the list is reloaded, and once the reload is
\* applied the page's list is the server's list from before the create plus
\* exactly one entry, whose title is the submitted title and whose
\* initial_generated is false; when a create fails the form keeps what the user
\* entered and no reload is sent.
C16_CreateRoundTrip ==
    [][/\ (CreateHandled /\ last'.status = "ok") =>
             /\ sectionForm' = emptySection
             /\ \E q \in Sent : q.op = "fetchSections"
       /\ (CreateHandled /\ last'.status # "ok") =>
             /\ sectionForm' = sectionForm
             /\ Sent = {}
       /\ (ReloadDoneFor("handleSectionCreate") /\ last'.status = "ok") =>
             /\ Len(sections') = Len(last'.note[3][3]) + 1
             /\ Entries(last'.note[3][3]) \subseteq Entries(sections')
             /\ \E new \in Entries(sections') \ Entries(last'.note[3][3]) :
                   /\ new.title = last'.note[3][2]
                   /\ new.initial_generated = FALSE
                   /\ new.id \notin Ids(last'.note[3][3])]_vars

\* "Intro" was created on a server that held the generated section A; the reload
\* has been applied and the form is empty again.
C16_Witness ==
    /\ last.act = "fetchSections" /\ last.status = "ok" /\ last.note[2]
    /\ last.note[3] = FromCreateOf("Intro", <<Section("A", "c0")>>)
    /\ Len(sections) = 2
    /\ sections[1] = Section("A", "c0")
    /\ sections[2].title = "Intro" /\ sections[2].initial_generated = FALSE
    /\ sectionForm = emptySection
    /\ ~savingSection

----------------------------------------------------------------------------
(* Termination of the operations *)

\* A flag of the mounted page is set: loading of either page; savingSection of
\* the project page or creating of the projects page; llmBusy or generating;
\* exporting.
LoadingSet == (page = "open" /\ loading) \/ (page = "projects" /\ projectsPage.loading)
SavingSet == (page = "open" /\ savingSection) \/ (page = "projects" /\ projectsPage.creating)
GeneratingSet == (page = "open" /\ llmBusy) \/ (page = "projects" /\ projectsPage.generating)
ExportingSet == page = "open" /\ exporting

\* C13.  Every flag that an operation of the mounted page has set is cleared in
\* the end, whether the operation's requests succeed, are answered with an error
\* or fail in transport: loading, savingSection, llmBusy and exporting of the
\* project page, loading, creating and generating of the projects page.  No flag
\* stays set forever (each is clear again and again), and with nothing in
\* flight no flag is set.
C13_FlagsCleared ==
    /\ [](inflight = {} => ~(LoadingSet \/ SavingSet \/ GeneratingSet \/ ExportingSet))
    /\ []<>~LoadingSet
    /\ []<>~SavingSet
    /\ []<>~GeneratingSet
    /\ []<>~ExportingSet

\* A generateProject request failed in transport and its flag is cleared.
C13_Witness ==
    /\ last = Noted("generateProject", "network", <<TRUE>>)
    /\ page = "projects"
    /\ ~projectsPage.generating

----------------------------------------------------------------------------
(* Properties of the interceptor's registration *)

----------------------------------------------------------------------------
(* Properties of saving and reloading *)

\* The step handles, on the mounted page, the response to a save.
SaveHandled == last'.act = "update" /\ \E r \in Handled : ~r.orphan

\* C22.  A save sends the buffer's title and content and nothing else; when it
\* succeeds exactly one request is sent, the reload of the section list, and
\* the step leaves the buffer and the list as they are; when it fails no request
\* is sent, the list and the buffer (unsaved edits included) are unchanged and
\* the error slot is set.
C22_Save ==
    [][/\ last'.act = "save" =>
             /\ last'.note[1] = selectedSection.id
             /\ DOMAIN last'.note[2] = {"title", "content"}
             /\ last'.note[2].title = selectedSection.title
             /\ last'.note[2].content = selectedSection.content
       /\ (SaveHandled /\ last'.status = "ok") =>
             /\ Cardinality(Sent) = 1
             /\ \A q \in Sent : q.op = "fetchSections" /\ q.arg = FromUpdate
             /\ Cardinality(inflight') = Cardinality(inflight)
             /\ UNCHANGED <<selectedSection, sections>>
       /\ (SaveHandled /\ last'.status # "ok") =>
             /\ inflight' \subseteq inflight
             /\ UNCHANGED <<selectedSection, sections>>
             /\ error' \in {"detail", "Unable to update section"}]_vars

\* A save of a buffer with typed content has failed: the edits are still in the
\* buffer, the list still has the server's content, the error is set and
\* nothing is in flight.
C22_Witness ==
    /\ last = Did("update", "500")
    /\ page = "open"
    /\ selectedSection.content = "typed"
    /\ \E i \in DOMAIN sections :
          sections[i].id = selectedSection.id /\ sections[i].content = "c0"
    /\ error = "Unable to update section"
    /\ ~savingSection
    /\ inflight = {}

\* The step handles, on the mounted page, the response to a section-list request.
ReloadHandled == last'.act = "fetchSections" /\ last'.note[2]

\* C23.  When a successful reload is applied and the list it brings has the
\* selected id, the buffer becomes that entry of the list, whatever was typed
\* into the buffer before and whichever handler asked for the reload; a failed
\* reload leaves the list and the buffer as they are.
C23_ReloadReplacesBuffer ==
    [][/\ (ReloadHandled /\ last'.status = "ok" /\ sections' # <<>>
              /\ selectedSection.id \in Ids(sections')) =>
             \E i \in DOMAIN sections' :
                /\ sections'[i].id = selectedSection.id
                /\ selectedSection' = sections'[i]
       /\ (ReloadHandled /\ last'.status # "ok") =>
             UNCHANGED <<sections, selectedSection>>]_vars

\* A reload asked for by handleGenerate was applied while the buffer of A held
\* content typed after the generated one arrived: the buffer is the list's entry.
C23_Witness ==
    /\ ReloadApplied
    /\ last.note[1] = "A"
    /\ last.note[3] # <<>> /\ last.note[3][1] = "handleGenerate"
    /\ last.note[5] = "typed"
    /\ selectedSection.id = "A" /\ selectedSection.content # "typed"
    /\ \E i \in DOMAIN sections : sections[i] = selectedSection

----------------------------------------------------------------------------
(* Properties of the mutations and their reloads *)

\* The operations that change what the server holds.
Mutations == {"createProject", "generateProject", "createSection", "update", "generate", "refine"}

\* The list request that follows a mutation, and the handler that awaits it.
ReloadOf(op) ==
    IF op \in {"createProject", "generateProject"} THEN "fetchProjects" ELSE "fetchSections"

HandlerOf(op) ==
    CASE op = "createProject" -> "handleCreate"
      [] op = "generateProject" -> "handleGenerate"
      [] op = "createSection" -> "handleSectionCreate"
      [] op = "update" -> "handleSectionUpdate"
      [] op = "generate" -> "handleGenerate"
      [] op = "refine" -> "handleRefine"

\* The busy flag a mutation's handler sets before its request and clears in its
\* finally block.
BusyFlag(op) ==
    CASE op = "createProject" -> projectsPage.creating
      [] op = "generateProject" -> projectsPage.generating
      [] op \in {"createSection", "update"} -> savingSection
      [] op \in {"generate", "refine"} -> llmBusy

\* The requests a step issues.
Issued == inflight' \ inflight

\* C24.  The step that handles a mutation's successful response issues exactly
\* one request, the reload of the mutation's list, awaited by the mutation's
\* handler, and leaves the handler's busy flag set; the flag is cleared by the
\* step that handles that reload's response.  The step that handles a failed
\* mutation issues nothing, and no step that handles a response issues a request
\* of the operation it handled, or any request but the reload after a success.
C24_OneReloadPerMutation ==
    [][/\ \A op \in Mutations :
             /\ (last'.act = op /\ last'.status = "ok") =>
                   /\ Cardinality(Issued) = 1
                   /\ Cardinality(Handled) = 1
                   /\ \A q \in Issued :
                         /\ q.op = ReloadOf(op)
                         /\ Awaiter(q) = HandlerOf(op)
                         /\ \A r \in Handled : q.orphan = r.orphan
                         /\ ~q.orphan => BusyFlag(op) /\ BusyFlag(op)'
             /\ (last'.act = op /\ last'.status # "ok") => Issued = {}
             /\ \A r \in Handled :
                   (r.op = ReloadOf(op) /\ ~r.orphan /\ Awaiter(r) = HandlerOf(op)) =>
                      ~BusyFlag(op)'
       /\ Handled # {} =>
             /\ \A q \in Issued, r \in Handled : q.op # r.op
             /\ Issued # {} => last'.act \in Mutations /\ last'.status = "ok"]_vars

\* A save has succeeded: the reload that handleSectionUpdate awaits is the one
\* request in flight, and savingSection is still set.
C24_Witness ==
    /\ last.act = "update" /\ last.status = "ok"
    /\ savingSection
    /\ \E q \in inflight : q.op = "fetchSections" /\ q.arg = FromUpdate /\ ~q.orphan
    /\ Cardinality(inflight) = 1

----------------------------------------------------------------------------
(* Properties of the error slot *)

\* The message each operation's catch block falls back to.
Fallback ==
    [fetchProject |-> "Unable to load project",
     fetchSections |-> "Unable to load sections",
     createSection |-> "Unable to create section",
     update |-> "Unable to update section",
     generate |-> "Unable to generate content",
     refine |-> "Unable to refine content",
     fetchProjects |-> "Unable to load projects",
     createProject |-> "Unable to create project",
     generateProject |-> "Unable to generate content"]

\* The error slot of the page an operation belongs to.
ErrorSlot(op) ==
    IF op \in {"fetchProjects", "createProject", "generateProject"}
    THEN projectsPage.error ELSE error

\* C25.  When a request of a mounted page, sent through api, is rejected, the
\* page's error slot becomes the response's detail when it carries one and the
\* operation's fallback message otherwise, whatever the status; the request is
\* over and its handler has sent nothing else.
C25_ErrorSurfaced ==
    [][\A r \in Handled, resp \in Failures :
          (~r.orphan /\ r.op \in DOMAIN Fallback /\ Rejected(r, resp)) =>
             /\ ErrorSlot(r.op)' = IF resp.detail THEN "detail" ELSE Fallback[r.op]
             /\ inflight' = inflight \ {r}]_vars

\* A generate request of the mounted editor was answered 401 with a detail:
\* the error slot shows the detail, and the interceptor has cleared the Credential.
C25_Witness ==
    /\ last.act = "generate" /\ last.status = "401" /\ last.note[3]
    /\ error = "detail"
    /\ authState = NullState

----------------------------------------------------------------------------
(* Properties of overlapping reloads *)

\* The section-list requests of the mounted page that are in flight.
ReloadsInFlight == {q \in inflight : q.op = "fetchSections" /\ ~q.orphan}

\* C26 as claimed.  While the page's loading indicator is false, none of its
\* section-list requests is in flight.
C26_LoadingCoversReloads == (page = "open" /\ ~loading) => ReloadsInFlight = {}

\* C27 as claimed, for the reload of the mount effect, which is issued before
\* every other request of its page.  When a handler's reload has just been
\* applied and the response to the mount effect's reload then arrives as the
\* last one in flight, the list stays the one the handler's reload brought: the
\* items of the reload that was issued most recently.
C27_LastIssuedWins ==
    [][\A q \in Handled :
          (/\ ReloadApplied /\ last.note[3] # <<>>
           /\ q.op = "fetchSections" /\ ~q.orphan /\ Awaiter(q) = "mount"
           /\ last'.act = "fetchSections" /\ last'.status = "ok"
           /\ inflight' = {}) =>
             sections' = sections]_vars

----------------------------------------------------------------------------
(* Properties of the layouts *)

\* C28.  A dashboard page is shown only by a render that saw an accessToken,
\* and the login and register pages are in use only after a render that saw
\* none.  Every render takes the Credential's accessToken as it is then: a
\* render without one leaves no dashboard page, a render with one leaves no
\* login or register page.  Once logout or a 401 has cleared the accessToken
\* under a dashboard page, a render is due.
C28_PagesFollowToken ==
    /\ [](page # "closed" => mounted /\ Truthy(renderedToken))
    /\ []((loginPage # NoPage \/ registerPage # NoPage) => mounted /\ ~Truthy(renderedToken))
    /\ []((page # "closed" /\ ~Truthy(authState.accessToken)) => ENABLED Render)
    /\ [][last'.act = "render" =>
             /\ renderedToken' = authState.accessToken
             /\ ~Truthy(authState.accessToken) => page' = "closed"
             /\ Truthy(authState.accessToken) => loginPage' = NoPage /\ registerPage' = NoPage]_vars

\* The render after a 401: the project detail page is closed while its project
\* request is still in flight, and the Credential and its record are gone.
C28_Witness ==
    /\ last = Did("render", "none")
    /\ mounted /\ page = "closed"
    /\ renderedToken = Null /\ authState = NullState /\ storage = Absent
    /\ \E q \in inflight : q.op = "fetchProject" /\ q.orphan

----------------------------------------------------------------------------
(* Properties of a 401 that arrives late *)

\* C29 as claimed.  When the 401 response to a request of an earlier session is
\* handled while a Credential established since then is current, the Credential
\* becomes all-null and its record is removed.
C29_LateUnauthorizedClears ==
    [][(/\ \E r \in Handled : r.orphan
        /\ last'.status = "401"
        /\ Truthy(authState.accessToken)) =>
          authState' = NullState /\ storage' = Absent]_vars

====
